---------------------------- MODULE Spec2Model ----------------------------
(* A model of scripts/coverage.py: the declaration scan over the source    *)
(* directory, the test correlation over the test directory, and the        *)
(* report.  Text (file names, lines, identifiers) is a sequence of         *)
(* one-character strings, so that the prefix tests, slices, strip() and    *)
(* split() of the script are computed character by character.              *)
EXTENDS Integers, Sequences, FiniteSets, TLC

VARIABLES
    srcDir,             \* the source directory: file name -> lines of the file
    testDir,            \* the test directory: file name -> lines of the file
    pc,                 \* position of the script
    listing,            \* result of the os.listdir call being iterated
    fi,                 \* number of entries of listing already iterated
    lines,              \* f.readlines() of the file being read
    linenum,            \* enumerate() index of the next line of that file
    items,              \* name -> <<filename, line, kind>>
    covered,            \* name -> <<test filename, line, kind>>
    uncovered,          \* name -> <<filename, line, kind>>
    uncovered_by_file,  \* [keys: file names in insertion order, val: file -> items]
    mostest,            \* sequence of <<count, filename>>
    todo,               \* sorted(mostest) not yet printed
    out                 \* the lines printed so far

vars == <<srcDir, testDir, pc, listing, fi, lines, linenum, items, covered,
          uncovered, uncovered_by_file, mostest, todo, out>>

-----------------------------------------------------------------------------
(* Bounds of the inputs.                                                   *)

MaxSrcLines == 2

MaxTestLines == 2

-----------------------------------------------------------------------------
(* Text.                                                                   *)

\* the characters of the inputs, in code point order
Ascii == <<"\t", "\n", "\r", " ", "(", ")", ".", "_",
           "a", "b", "c", "d", "e", "f", "h", "i", "l", "m", "n", "o",
           "p", "r", "s", "t", "u", "x">>

Ord(c) == CHOOSE i \in 1..Len(Ascii) : Ascii[i] = c

\* str.strip() without argument removes whitespace
Whitespace == {" ", "\t", "\n", "\r", "\f"}

StartsWith(s, p) == Len(s) >= Len(p) /\ SubSeq(s, 1, Len(p)) = p

EndsWith(s, p) == Len(s) >= Len(p) /\ SubSeq(s, Len(s) - Len(p) + 1, Len(s)) = p

\* s[n:]
SliceFrom(s, n) == SubSeq(s, n + 1, Len(s))

Strip(s) ==
    LET keep == {i \in 1..Len(s) : s[i] \notin Whitespace}
    IN  IF keep = {} THEN <<>>
        ELSE LET lo == CHOOSE i \in keep : \A j \in keep : i <= j
                 hi == CHOOSE i \in keep : \A j \in keep : j <= i
             IN  SubSeq(s, lo, hi)

\* s.split(c)[0]
BeforeFirst(s, c) ==
    LET at == {i \in 1..Len(s) : s[i] = c}
    IN  IF at = {} THEN s
        ELSE SubSeq(s, 1, (CHOOSE i \in at : \A j \in at : i <= j) - 1)

\* s.split(c, 1)[1], for s holding c
AfterFirst(s, c) ==
    LET at == {i \in 1..Len(s) : s[i] = c}
    IN  SubSeq(s, (CHOOSE i \in at : \A j \in at : i <= j) + 1, Len(s))

\* a < b for str
StrLess(a, b) ==
    \E i \in 1..Len(b) :
        /\ i <= Len(a) + 1
        /\ \A j \in 1..(i - 1) : a[j] = b[j]
        /\ (i = Len(a) + 1 \/ Ord(a[i]) < Ord(b[i]))

\* sorted(list(d.keys())) of a set of names: the i-th is the name with i - 1
\* smaller ones
SortedNames(S) ==
    [i \in 1..Cardinality(S) |->
        CHOOSE x \in S : Cardinality({y \in S : StrLess(y, x)}) = i - 1]

\* str.capitalize() of the two kinds
Capitalize(kind) == IF kind = "module" THEN "Module" ELSE "Function"

kwModule == <<"m", "o", "d", "u", "l", "e", " ">>

kwFunction == <<"f", "u", "n", "c", "t", "i", "o", "n", " ">>

kwTest == <<"t", "e", "s", "t", "_">>

Ext == <<".", "s", "c", "a", "d">>

ModuleSkip == 7

FunctionSkip == 9

\* text[skip:].strip().split("(")[0].strip(), each call applied to the value
\* of the one before it
NameAfter(text, skip) ==
    CHOOSE name \in
        {Strip(head) : head \in
            {BeforeFirst(rest, "(") : rest \in {Strip(SliceFrom(text, skip))}}} : TRUE

\* the identifier of a declaration line
ItemName(line) ==
    LET is_module == StartsWith(line, kwModule)
    IN  NameAfter(line, IF is_module THEN ModuleSkip ELSE FunctionSkip)

\* the module name of a line of a test file
TestModule(line) == NameAfter(line, ModuleSkip)

IsDeclLine(line) == StartsWith(line, kwModule) \/ StartsWith(line, kwFunction)

ItemType(line) == IF StartsWith(line, kwModule) THEN "module" ELSE "function"

\* only the exact name "_" is skipped
IsPrivate_Exact(itemname) == itemname = <<"_">>

IsPrivate(itemname) == StartsWith(itemname, <<"_">>)

\* every file of the directory is scanned
IsSrcFile_Any(filename) == TRUE

IsSrcFile(filename) == EndsWith(filename, Ext)

\* every .scad file of the test directory is read
IsTestFile_AnyScad(filename) == EndsWith(filename, Ext)

IsTestFile(filename) == StartsWith(filename, kwTest) /\ EndsWith(filename, Ext)

IsTestLine(line) == StartsWith(line, kwModule)

IsTestName(testmodule) == StartsWith(testmodule, kwTest)

TargetName(testmodule) == AfterFirst(testmodule, "_")

\* f"test_{src_filename}"
ExpectedTestFile(src_filename) == kwTest \o src_filename

-----------------------------------------------------------------------------
(* The directories the script is run on.                                   *)

nBox == <<"b", "o", "x">>

nArm == <<"a", "r", "m">>

nCap == <<"c", "a", "p">>

nRod == <<"r", "o", "d">>

nIn == <<"_", "i", "n">>

Eol == <<"(", ")", "\n">>

\* shapes.scad, extra.scad, notes.txt
fShapes == <<"s", "h", "a", "p", "e", "s">> \o Ext

fExtra == <<"e", "x", "t", "r", "a">> \o Ext

fNotes == <<"n", "o", "t", "e", "s", ".", "t", "x", "t">>

\* test_shapes.scad, test_other.scad, other.scad
fTestShapes == kwTest \o fShapes

fTestOther == kwTest \o <<"o", "t", "h", "e", "r">> \o Ext

fOther == <<"o", "t", "h", "e", "r">> \o Ext

\* lines a source file is made of
SrcLines ==
    { kwModule \o nBox \o Eol,                                \* module box()
      kwFunction \o nBox \o <<"(", "x", ")", "\n">>,          \* function box(x)
      kwModule \o nIn \o Eol,                                 \* module _in()
      kwFunction \o <<" ">> \o nIn \o Eol,                    \* function  _in()
      kwFunction \o <<" ">> \o nArm \o <<" ">> \o Eol,        \* function  arm ()
      kwModule \o nCap \o <<"\n">>,                           \* module cap
      <<" ">> \o kwModule \o nRod \o Eol }                    \*  module rod()

\* lines a test file is made of
TestLines ==
    { kwModule \o kwTest \o nBox \o Eol,                      \* module test_box()
      kwModule \o <<" ">> \o kwTest \o nArm \o <<" ">> \o Eol,\* module  test_arm ()
      kwFunction \o kwTest \o nCap \o Eol,                    \* function test_cap()
      kwModule \o kwTest \o <<"b", "o">> \o Eol,              \* module test_bo()
      kwModule \o kwTest \o <<"o", "x">> \o Eol,              \* module test_ox()
      kwModule \o nBox \o Eol,                                \* module box()
      kwModule \o kwTest \o nIn \o Eol }                      \* module test__in()

SeqsUpTo(S, n) == UNION {[1..k -> S] : k \in 0..n}

Perms(S) ==
    {p \in [1..Cardinality(S) -> S] : \A i, j \in 1..Cardinality(S) : p[i] = p[j] => i = j}

\* a source directory of two .scad files holding the lines of s, split at k,
\* beside a file that is not a .scad file
SrcDirOf(s, k) ==
    (fShapes :> SubSeq(s, 1, k)) @@ (fExtra :> SubSeq(s, k + 1, Len(s)))
        @@ (fNotes :> <<kwModule \o nRod \o Eol>>)

\* a test directory of two test_*.scad files holding the lines of s, split at
\* k, beside a .scad file that is not named test_*
TestDirOf(s, k) ==
    (fTestShapes :> SubSeq(s, 1, k)) @@ (fTestOther :> SubSeq(s, k + 1, Len(s)))
        @@ (fOther :> <<kwModule \o kwTest \o nCap \o Eol>>)

FixedSrcDir ==
    (fShapes :> << kwModule \o nBox \o Eol,
                   kwFunction \o nArm \o Eol,
                   kwModule \o nIn \o Eol >>)
        @@ (fExtra :> << kwModule \o nCap \o Eol >>)

\* a directory without files
EmptyDir == <<>>

FixedTestDir == (fTestShapes :> << kwModule \o kwTest \o nBox \o Eol >>)

Init ==
    /\ \/ /\ \E s \in SeqsUpTo(SrcLines, MaxSrcLines) :
                \E k \in 0..Len(s) : srcDir = SrcDirOf(s, k)
          /\ testDir = FixedTestDir
       \/ /\ srcDir = EmptyDir
          /\ testDir \in {EmptyDir, FixedTestDir}
       \/ /\ srcDir = FixedSrcDir
          /\ \E s \in SeqsUpTo(TestLines, MaxTestLines) :
                \E k \in 0..Len(s) : testDir = TestDirOf(s, k)
    /\ pc = "start"
    /\ listing = <<>>
    /\ fi = 0
    /\ lines = <<>>
    /\ linenum = 0
    /\ items = <<>>
    /\ covered = <<>>
    /\ uncovered = <<>>
    /\ uncovered_by_file = [keys |-> <<>>, val |-> <<>>]
    /\ mostest = <<>>
    /\ todo = <<>>
    /\ out = <<>>

-----------------------------------------------------------------------------
(* The declaration scan.                                                   *)

Drop(d, k) == [x \in DOMAIN d \ {k} |-> d[x]]

\* the last declaration wins
RegisterItem_Overwrite(its, itemname, entry) == (itemname :> entry) @@ its

\* items after a declaration line of a public name
RegisterItem(its, itemname, entry) ==
    IF itemname \in DOMAIN its THEN its ELSE (itemname :> entry) @@ its

\* the warning names the kind of the registry entry
DuplicateWarning_EntryKind(its, itemname, item_type, filename, line) ==
    IF itemname \in DOMAIN its
    THEN << [tag |-> "re-defined", kind |-> Capitalize(its[itemname][3]),
             name |-> itemname, file |-> filename, line |-> line],
            [tag |-> "previously", file |-> its[itemname][1], line |-> its[itemname][2]] >>
    ELSE <<>>

\* what a declaration line of a public name prints
DuplicateWarning(its, itemname, item_type, filename, line) ==
    IF itemname \in DOMAIN its
    THEN << [tag |-> "re-defined", kind |-> Capitalize(item_type), name |-> itemname,
             file |-> filename, line |-> line],
            [tag |-> "previously", file |-> its[itemname][1], line |-> its[itemname][2]] >>
    ELSE <<>>

ListSrc ==
    /\ pc = "start"
    /\ listing' \in Perms(DOMAIN srcDir)
    /\ fi' = 0
    /\ pc' = "src_files"
    /\ UNCHANGED <<srcDir, testDir, lines, linenum, items, covered, uncovered,
                   uncovered_by_file, mostest, todo, out>>

SrcSkip ==
    /\ pc = "src_files"
    /\ fi < Len(listing)
    /\ ~IsSrcFile(listing[fi + 1])
    /\ fi' = fi + 1
    /\ UNCHANGED <<srcDir, testDir, pc, listing, lines, linenum, items, covered,
                   uncovered, uncovered_by_file, mostest, todo, out>>

SrcOpen ==
    /\ pc = "src_files"
    /\ fi < Len(listing)
    /\ IsSrcFile(listing[fi + 1])
    /\ lines' = srcDir[listing[fi + 1]]
    /\ linenum' = 0
    /\ pc' = "src_lines"
    /\ UNCHANGED <<srcDir, testDir, listing, fi, items, covered, uncovered,
                   uncovered_by_file, mostest, todo, out>>

SrcLine ==
    /\ pc = "src_lines"
    /\ linenum < Len(lines)
    /\ \E itemname \in {ItemName(lines[linenum + 1])} :
       LET line == lines[linenum + 1]
           filename == listing[fi + 1]
           item_type == ItemType(line)
       IN  IF IsDeclLine(line) /\ ~IsPrivate(itemname)
           THEN /\ items' = RegisterItem(items, itemname,
                                         <<filename, linenum + 1, item_type>>)
                /\ out' = out \o DuplicateWarning(items, itemname, item_type,
                                                  filename, linenum + 1)
           ELSE /\ items' = items
                /\ out' = out
    /\ linenum' = linenum + 1
    /\ UNCHANGED <<srcDir, testDir, pc, listing, fi, lines, covered, uncovered,
                   uncovered_by_file, mostest, todo>>

SrcClose ==
    /\ pc = "src_lines"
    /\ linenum = Len(lines)
    /\ fi' = fi + 1
    /\ pc' = "src_files"
    /\ UNCHANGED <<srcDir, testDir, listing, lines, linenum, items, covered,
                   uncovered, uncovered_by_file, mostest, todo, out>>

-----------------------------------------------------------------------------
(* The test correlation.                                                   *)

StartCorrelation ==
    /\ pc = "src_files"
    /\ fi = Len(listing)
    /\ covered' = <<>>
    /\ uncovered' = items
    /\ listing' \in Perms(DOMAIN testDir)
    /\ fi' = 0
    /\ pc' = "test_files"
    /\ UNCHANGED <<srcDir, testDir, lines, linenum, items, uncovered_by_file,
                   mostest, todo, out>>

TestSkip ==
    /\ pc = "test_files"
    /\ fi < Len(listing)
    /\ ~IsTestFile(listing[fi + 1])
    /\ fi' = fi + 1
    /\ UNCHANGED <<srcDir, testDir, pc, listing, lines, linenum, items, covered,
                   uncovered, uncovered_by_file, mostest, todo, out>>

TestOpen ==
    /\ pc = "test_files"
    /\ fi < Len(listing)
    /\ IsTestFile(listing[fi + 1])
    /\ lines' = testDir[listing[fi + 1]]
    /\ linenum' = 0
    /\ pc' = "test_lines"
    /\ UNCHANGED <<srcDir, testDir, listing, fi, items, covered, uncovered,
                   uncovered_by_file, mostest, todo, out>>

\* the declaration name a line of a test file tests, <<name>>, or <<>>
TestedName(line) ==
    IF IsTestLine(line)
    THEN CHOOSE tested \in
             {IF IsTestName(testmodule) THEN <<TargetName(testmodule)>> ELSE <<>> :
                 testmodule \in {TestModule(line)}} : TRUE
    ELSE <<>>

\* whether a tested name is matched against the declarations
IsCandidate(unc, itemname) == itemname \in DOMAIN unc

\* the test file is compared with the source file's own name
IsMismatch_NoPrefix(filename, src_filename) == filename # src_filename

\* whether the test of a declaration of src_filename in filename is warned about
IsMismatch(filename, src_filename) == filename # ExpectedTestFile(src_filename)

MismatchWarning(unc, itemname, filename, line) ==
    IF IsMismatch(filename, unc[itemname][1])
    THEN << [tag |-> "defined", kind |-> Capitalize(unc[itemname][3]), name |-> itemname,
             file |-> unc[itemname][1], line |-> unc[itemname][2]],
            [tag |-> "but tested", file |-> filename, line |-> line] >>
    ELSE <<>>

\* the record is not written
Cover_Forgotten(cov, unc, itemname, filename, line) == cov

\* covered after a match
Cover(cov, unc, itemname, filename, line) ==
    (itemname :> <<filename, line, unc[itemname][3]>>) @@ cov

\* the name stays a candidate
Uncover_Kept(unc, itemname) == unc

\* uncovered after a match
Uncover(unc, itemname) == Drop(unc, itemname)

TestLine ==
    /\ pc = "test_lines"
    /\ linenum < Len(lines)
    /\ \E tested \in {TestedName(lines[linenum + 1])} :
           LET filename == listing[fi + 1]
           IN  IF tested # <<>> /\ IsCandidate(uncovered, tested[1])
               THEN /\ out' = out \o MismatchWarning(uncovered, tested[1], filename,
                                                     linenum + 1)
                    /\ covered' = Cover(covered, uncovered, tested[1], filename,
                                        linenum + 1)
                    /\ uncovered' = Uncover(uncovered, tested[1])
               ELSE /\ out' = out
                    /\ covered' = covered
                    /\ uncovered' = uncovered
    /\ linenum' = linenum + 1
    /\ UNCHANGED <<srcDir, testDir, pc, listing, fi, lines, items,
                   uncovered_by_file, mostest, todo>>

TestClose ==
    /\ pc = "test_lines"
    /\ linenum = Len(lines)
    /\ fi' = fi + 1
    /\ pc' = "test_files"
    /\ UNCHANGED <<srcDir, testDir, listing, lines, linenum, items, covered,
                   uncovered, uncovered_by_file, mostest, todo, out>>

-----------------------------------------------------------------------------
(* The report.                                                             *)

\* uncovered_by_file after one pass of the loop over the sorted names
AddToGroup(ubf, unc, itemname) ==
    LET filename == unc[itemname][1]
        start == IF filename \in DOMAIN ubf.val
                 THEN ubf
                 ELSE [keys |-> Append(ubf.keys, filename),
                       val |-> (filename :> <<>>) @@ ubf.val]
    IN  [keys |-> start.keys,
         val |-> [start.val EXCEPT ![filename] =
                     Append(@, <<itemname, unc[itemname][3]>>)]]

\* uncovered_by_file after the loop over the sorted names
RECURSIVE GroupByFile(_, _, _)
GroupByFile(names, unc, acc) ==
    IF names = <<>> THEN acc
    ELSE CHOOSE ubf \in
             {GroupByFile(Tail(names), unc, next) :
                 next \in {AddToGroup(acc, unc, Head(names))}} : TRUE

\* mostest after the loop over uncovered_by_file.keys()
Mostest(ubf) == [i \in 1..Len(ubf.keys) |-> <<Len(ubf.val[ubf.keys[i]]), ubf.keys[i]>>]

\* the groups are printed in the order of uncovered_by_file
SortByCount_Unsorted(seq) == seq

\* sorted(seq, key=operator.itemgetter(0)): ascending in the first component,
\* equal ones in their order in seq
RECURSIVE SortByCount(_)
SortByCount(seq) ==
    IF seq = <<>> THEN <<>>
    ELSE LET rest == SortByCount(SubSeq(seq, 1, Len(seq) - 1))
             x == seq[Len(seq)]
             before == {i \in 1..Len(rest) : rest[i][1] <= x[1]}
             n == Cardinality(before)
         IN  SubSeq(rest, 1, n) \o <<x>> \o SubSeq(rest, n + 1, Len(rest))

\* the lines printed for one entry of the sorted mostest
GroupLines(ubf, entry) ==
    << [tag |-> "group", file |-> entry[2], cnt |-> entry[1]] >>
        \o [i \in 1..Len(ubf.val[entry[2]]) |->
               [tag |-> "item", kind |-> ubf.val[entry[2]][i][2],
                name |-> ubf.val[entry[2]][i][1]]]

\* an empty registry is reported as 0 of 0 items
Percentage_Fallback(covitems, totitems) ==
    IF totitems = 0
    THEN [fault |-> FALSE, value |-> 0]
    ELSE [fault |-> FALSE,
          value |-> (2 * 10000 * covitems + totitems) \div (2 * totitems)]

\* 100.0 * covitems / totitems to two decimals, in hundredths of a percent
\* (exact below 32 items, where no quotient has a third decimal of exactly 5)
Percentage(covitems, totitems) ==
    IF totitems = 0
    THEN [fault |-> TRUE, value |-> 0]
    ELSE [fault |-> FALSE,
          value |-> (2 * 10000 * covitems + totitems) \div (2 * totitems)]

Group ==
    /\ pc = "test_files"
    /\ fi = Len(listing)
    /\ \E names \in {SortedNames(DOMAIN uncovered)} :
       \E grouped \in {GroupByFile(names, uncovered, [keys |-> <<>>, val |-> <<>>])} :
           /\ uncovered_by_file' = grouped
           /\ mostest' = Mostest(grouped)
    /\ pc' = "header"
    /\ UNCHANGED <<srcDir, testDir, listing, fi, lines, linenum, items, covered,
                   uncovered, todo, out>>

PrintHeader ==
    /\ pc = "header"
    /\ out' = Append(out, [tag |-> "NOT COVERED:"])
    /\ todo' = SortByCount(mostest)
    /\ pc' = "groups"
    /\ UNCHANGED <<srcDir, testDir, listing, fi, lines, linenum, items, covered,
                   uncovered, uncovered_by_file, mostest>>

PrintGroup ==
    /\ pc = "groups"
    /\ todo # <<>>
    /\ out' = out \o GroupLines(uncovered_by_file, Head(todo))
    /\ todo' = Tail(todo)
    /\ UNCHANGED <<srcDir, testDir, pc, listing, fi, lines, linenum, items, covered,
                   uncovered, uncovered_by_file, mostest>>

Total ==
    /\ pc = "groups"
    /\ todo = <<>>
    /\ LET totitems == Cardinality(DOMAIN items)
           covitems == Cardinality(DOMAIN covered)
           pct == Percentage(covitems, totitems)
       IN  IF pct.fault
           THEN /\ pc' = "fault"
                /\ out' = out
           ELSE /\ pc' = "done"
                /\ out' = Append(out, [tag |-> "Total coverage", cov |-> covitems,
                                       tot |-> totitems, pct |-> pct.value])
    /\ UNCHANGED <<srcDir, testDir, listing, fi, lines, linenum, items, covered,
                   uncovered, uncovered_by_file, mostest, todo>>

Next ==
    \/ ListSrc
    \/ SrcSkip
    \/ SrcOpen
    \/ SrcLine
    \/ SrcClose
    \/ StartCorrelation
    \/ TestSkip
    \/ TestOpen
    \/ TestLine
    \/ TestClose
    \/ Group
    \/ PrintHeader
    \/ PrintGroup
    \/ Total

Spec == Init /\ [][Next]_vars

-----------------------------------------------------------------------------
(* The declarations and tests of the directories, for the properties below. *)

LeadingUnderscore(name) == Len(name) > 0 /\ name[1] = "_"

HasExt(filename) == EndsWith(filename, Ext)

NamedTest(filename) == StartsWith(filename, kwTest) /\ EndsWith(filename, Ext)

\* line n of file f of the source directory declares a public name
Qualifies(f, n) ==
    /\ HasExt(f)
    /\ IsDeclLine(srcDir[f][n])
    /\ ~LeadingUnderscore(ItemName(srcDir[f][n]))

\* the identifiers declared in the .scad files of the source directory
AllDeclared ==
    {ItemName(srcDir[fn[1]][fn[2]]) : fn \in
        {gm \in UNION {{<<f, n>> : n \in 1..Len(srcDir[f])} : f \in DOMAIN srcDir} :
            HasExt(gm[1]) /\ IsDeclLine(srcDir[gm[1]][gm[2]])}}

\* the public names declared in the source directory
DeclaredNames == {name \in AllDeclared : ~LeadingUnderscore(name)}

\* the names the test modules of the test directory are named after
TestedNames ==
    UNION {{TargetName(TestModule(testDir[f][n])) : n \in
              {m \in 1..Len(testDir[f]) :
                  /\ StartsWith(testDir[f][m], kwModule)
                  /\ StartsWith(TestModule(testDir[f][m]), kwTest)}} :
           f \in {g \in DOMAIN testDir : NamedTest(g)}}

Scanning == pc \in {"src_files", "src_lines"}

Correlating == pc \in {"test_files", "test_lines"}

\* <<i, n>>: line n of the i-th listed file has been read by the running loop
Read(dir) ==
    UNION {{<<i, n>> : n \in
              {m \in 1..Len(dir[listing[i]]) :
                  i <= fi \/ (pc \in {"src_lines", "test_lines"} /\ m <= linenum)}} :
           i \in 1..(IF fi < Len(listing) THEN fi + 1 ELSE fi)}

Earlier(a, b) == a[1] < b[1] \/ (a[1] = b[1] /\ a[2] < b[2])

\* the public declarations read so far by the scan
SeenDecls == {d \in Read(srcDir) : Qualifies(listing[d[1]], d[2])}

SeenName(d) == ItemName(srcDir[listing[d[1]]][d[2]])

FirstDecl(name) ==
    CHOOSE d \in SeenDecls :
        /\ SeenName(d) = name
        /\ \A e \in SeenDecls : SeenName(e) = name => (e = d \/ Earlier(d, e))

Tagged(t) == {i \in 1..Len(out) : out[i].tag = t}

\* C1: during the scan the registry holds exactly the public names declared on
\* the lines read so far, each with the file, 1-based line and kind of the
\* first such line in enumeration order; and no step of the run ever changes or
\* removes an entry of the registry.
C1_FirstDeclarationWins ==
    /\ [](Scanning =>
            /\ DOMAIN items = {SeenName(d) : d \in SeenDecls}
            /\ \A name \in DOMAIN items :
                   LET d == FirstDecl(name)
                   IN  items[name] = <<listing[d[1]], d[2],
                                       ItemType(srcDir[listing[d[1]]][d[2]])>>)
    /\ [][\A name \in DOMAIN items :
              name \in DOMAIN items' /\ items'[name] = items[name]]_vars

\* box is declared in both files, with different kinds, and the registry holds
\* the declaration of extra.scad, which was listed first
C1_Witness ==
    /\ pc = "done"
    /\ \E n \in 1..Len(srcDir[fShapes]) :
           Qualifies(fShapes, n) /\ ItemName(srcDir[fShapes][n]) = nBox
    /\ nBox \in DOMAIN items
    /\ items[nBox] = <<fExtra, 1, "function">>
    /\ Tagged("re-defined") # {}

\* C5: a declaration line of a public name that is already in the registry
\* prints exactly the two lines of the duplicate warning (the kind of that
\* line, the name, its file and line; then the file and line of the registry
\* entry), leaves the registry as it is and moves on to the next line; so
\* during the scan the warnings and the registry entries together number the
\* public declaration lines read.
C5_DuplicateWarned ==
    /\ [](Scanning =>
            /\ Cardinality(Tagged("re-defined")) + Cardinality(DOMAIN items)
                   = Cardinality(SeenDecls)
            /\ Len(out) = 2 * Cardinality(Tagged("re-defined")))
    /\ [][(/\ pc = "src_lines"
           /\ linenum < Len(lines)
           /\ Qualifies(listing[fi + 1], linenum + 1)
           /\ ItemName(lines[linenum + 1]) \in DOMAIN items)
          => LET name == ItemName(lines[linenum + 1])
             IN  /\ out' = out \o
                       << [tag |-> "re-defined",
                           kind |-> IF StartsWith(lines[linenum + 1], kwModule)
                                    THEN "Module" ELSE "Function",
                           name |-> name, file |-> listing[fi + 1],
                           line |-> linenum + 1],
                          [tag |-> "previously", file |-> items[name][1],
                           line |-> items[name][2]] >>
                 /\ items' = items
                 /\ pc' = "src_lines"
                 /\ linenum' = linenum + 1]_vars

\* a module box was registered and a function box of the other file was
\* reported as its redefinition
C5_Witness ==
    /\ Scanning
    /\ nBox \in DOMAIN items
    /\ items[nBox][3] = "module"
    /\ \E i \in Tagged("re-defined") :
           /\ out[i].kind = "Function"
           /\ out[i].name = nBox
           /\ out[i].file # items[nBox][1]

\* the names of the warnings printed so far
WarnedNames == {out[i].name : i \in Tagged("re-defined") \cup Tagged("defined")}

\* C4: no name with a leading underscore is ever a key of the registry, of
\* uncovered or of covered, or named in a warning; and both numbers of the
\* aggregate line count names without a leading underscore only.
C4_PrivateNeverTracked ==
    /\ \A name \in DOMAIN items \cup DOMAIN uncovered \cup DOMAIN covered
                       \cup WarnedNames : ~LeadingUnderscore(name)
    /\ \A i \in Tagged("Total coverage") :
           /\ out[i].tot = Cardinality({n \in AllDeclared : ~LeadingUnderscore(n)})
           /\ out[i].cov = Cardinality({n \in AllDeclared \cap TestedNames :
                                           ~LeadingUnderscore(n)})

\* _in is declared in a source file and a test file holds module test__in
C4_Witness ==
    /\ pc = "done"
    /\ nIn \in AllDeclared
    /\ nIn \in TestedNames

\* C10: whatever the order the two directories are listed in, the registry
\* holds the public names declared in the .scad files of the source directory
\* once the scan is over, covered holds those of them that a test module is
\* named after once the correlation is over, and the aggregate line gives the
\* sizes of these two sets.
C10_OrderIndependent ==
    /\ pc \notin {"start", "src_files", "src_lines"} => DOMAIN items = DeclaredNames
    /\ pc \in {"header", "groups", "done", "fault"} =>
           DOMAIN covered = DeclaredNames \cap TestedNames
    /\ \A i \in Tagged("Total coverage") :
           /\ out[i].tot = Cardinality(DeclaredNames)
           /\ out[i].cov = Cardinality(DeclaredNames \cap TestedNames)

\* box is declared in both files and the run attributed it to the second
\* file of the directory, cap is declared in the first
C10_Witness ==
    /\ pc = "done"
    /\ \E n \in 1..Len(srcDir[fShapes]) :
           Qualifies(fShapes, n) /\ ItemName(srcDir[fShapes][n]) = nBox
    /\ nBox \in DOMAIN covered
    /\ items[nBox][1] = fExtra
    /\ out[Len(out)].cov = 1

\* the running loop is at a line of a test_*.scad file that is a test module
AtTestModule ==
    /\ pc = "test_lines"
    /\ linenum < Len(lines)
    /\ NamedTest(listing[fi + 1])
    /\ StartsWith(lines[linenum + 1], kwModule)
    /\ StartsWith(TestModule(lines[linenum + 1]), kwTest)

\* the name that test module is named after
Target == SliceFrom(TestModule(lines[linenum + 1]), Len(kwTest))

\* C2: from the start of the correlation to the end of the run, after every
\* step, covered and uncovered have disjoint key sets whose union is the key
\* set of the registry, and the aggregate line's covered count plus the number
\* of uncovered names is its total.
C2_Partition ==
    pc \notin {"start", "src_files", "src_lines"} =>
        /\ DOMAIN covered \cap DOMAIN uncovered = {}
        /\ DOMAIN covered \cup DOMAIN uncovered = DOMAIN items
        /\ Cardinality(DOMAIN covered) + Cardinality(DOMAIN uncovered)
               = Cardinality(DOMAIN items)
        /\ \A i \in Tagged("Total coverage") :
               out[i].cov + Cardinality(DOMAIN uncovered) = out[i].tot

\* a run ends with covered and uncovered names
C2_Witness ==
    /\ pc = "done"
    /\ DOMAIN covered # {}
    /\ DOMAIN uncovered # {}

\* C3: a test module line of a test file that is named after an uncovered name
\* moves the name from uncovered to covered, recording the test file, line and
\* the declaration's kind, whatever the test file is called; it prints the two
\* lines of the mismatch warning when the test file is not test_<source file>
\* and prints nothing otherwise.
C3_CoveredDespiteMismatch ==
    [][(AtTestModule /\ Target \in DOMAIN uncovered)
       => LET src_filename == uncovered[Target][1]
          IN  /\ Target \in DOMAIN covered'
              /\ covered'[Target] = <<listing[fi + 1], linenum + 1, uncovered[Target][3]>>
              /\ Target \notin DOMAIN uncovered'
              /\ IF listing[fi + 1] = kwTest \o src_filename
                 THEN out' = out
                 ELSE out' = out \o
                        << [tag |-> "defined",
                            kind |-> IF uncovered[Target][3] = "module"
                                     THEN "Module" ELSE "Function",
                            name |-> Target, file |-> src_filename,
                            line |-> uncovered[Target][2]],
                           [tag |-> "but tested", file |-> listing[fi + 1],
                            line |-> linenum + 1] >>]_vars

\* box of shapes.scad is covered by test_other.scad, with the warning printed
C3_Witness ==
    /\ nBox \in DOMAIN covered
    /\ items[nBox][1] = fShapes
    /\ covered[nBox][1] = fTestOther
    /\ \E i \in Tagged("defined") :
           /\ out[i].name = nBox
           /\ out[i + 1] = [tag |-> "but tested", file |-> fTestOther,
                            line |-> covered[nBox][2]]

\* the test modules read so far by the correlation
SeenTests ==
    {d \in Read(testDir) :
        /\ NamedTest(listing[d[1]])
        /\ StartsWith(testDir[listing[d[1]]][d[2]], kwModule)
        /\ StartsWith(TestModule(testDir[listing[d[1]]][d[2]]), kwTest)}

SeenTarget(d) == SliceFrom(TestModule(testDir[listing[d[1]]][d[2]]), Len(kwTest))

FirstTest(name) ==
    CHOOSE d \in SeenTests :
        /\ SeenTarget(d) = name
        /\ \A e \in SeenTests : SeenTarget(e) = name => (e = d \/ Earlier(d, e))

\* C7: during the correlation the record of a covered name is that of the
\* first test module named after it in enumeration order; no step changes or
\* removes a record; and a test module named after a covered name changes
\* neither covered nor uncovered and prints nothing.
C7_FirstTestWins ==
    /\ [](Correlating =>
            \A name \in DOMAIN covered :
                LET d == FirstTest(name)
                IN  covered[name] = <<listing[d[1]], d[2], items[name][3]>>)
    /\ [][\A name \in DOMAIN covered :
              name \in DOMAIN covered' /\ covered'[name] = covered[name]]_vars
    /\ [][(AtTestModule /\ Target \in DOMAIN covered)
          => (covered' = covered /\ uncovered' = uncovered /\ out' = out)]_vars

\* two test modules named after box have been read, the second one in a file
\* that would have been warned about
C7_Witness ==
    /\ pc = "done"
    /\ nBox \in DOMAIN covered
    /\ covered[nBox] = <<fTestShapes, 1, "module">>
    /\ fTestOther \in DOMAIN testDir
    /\ \E n \in 1..Len(testDir[fTestOther]) :
           TestedName(testDir[fTestOther][n]) = <<nBox>>
    /\ Tagged("defined") = {}

\* C8: covered changes only at a line starting with "module " of a file of the
\* test directory named test_*.scad, whose module name starts with "test_", and
\* then by exactly the name that follows that "test_", which is a name of the
\* registry.
C8_OnlyTestModulesCover ==
    [][covered' # covered
       => /\ AtTestModule
          /\ Target \in DOMAIN items
          /\ DOMAIN covered' = DOMAIN covered \cup {Target}]_vars

\* arm is covered while box is not, with test modules test_bo or test_ox, a
\* function test_cap and a module test_cap in other.scad in the directory
C8_Witness ==
    /\ pc = "done"
    /\ DOMAIN covered = {nArm}
    /\ DOMAIN uncovered = {nBox, nCap}
    /\ \E f \in {fTestShapes, fTestOther} : \E n \in 1..Len(testDir[f]) :
           TestedName(testDir[f][n]) \in {<< <<"b", "o">> >>, << <<"o", "x">> >>}
    /\ fOther \in DOMAIN testDir

Ended == pc \in {"done", "fault"}

\* C6: the run always goes on until it ends, either normally or in the
\* arithmetic fault; it ends in the fault exactly when the registry (the set of
\* public names declared in the source directory) is empty; the aggregate line
\* is printed in no state of a run that is not ended normally, and exactly
\* once, as the last line, in a run ended normally.
C6_FaultIffEmpty ==
    /\ Ended = ~ENABLED Next
    /\ pc = "fault" => (DOMAIN items = {} /\ DeclaredNames = {})
    /\ pc = "done" => (DOMAIN items # {} /\ DeclaredNames # {})
    /\ Tagged("Total coverage") = IF pc = "done" THEN {Len(out)} ELSE {}
    /\ Ended => Cardinality(Tagged("NOT COVERED:")) = 1

\* a run over a source directory that declares only private names, and a line
\* that is no declaration, has ended in the fault
C6_Witness ==
    /\ pc = "fault"
    /\ \E f \in DOMAIN srcDir : srcDir[f] # <<>> /\ HasExt(f)
    /\ out = << [tag |-> "NOT COVERED:"] >>

\* the group line above item line i
GroupOf(i) ==
    CHOOSE g \in Tagged("group") :
        g < i /\ \A k \in Tagged("group") : k < i => k <= g

\* C9: when the run has ended, the lines after NOT COVERED: are group lines
\* and item lines; every uncovered name is on exactly one item line, with its
\* kind, below the group line of the file the registry records for it, and no
\* other name is on an item line; the counts of the group lines are ascending
\* and no file has two group lines; the count of a group line is the number of
\* item lines between it and the next group line, which is not zero; and the
\* names of the item lines of a group are ascending.
C9_NotCoveredSection ==
    Ended =>
        /\ \A i \in 1..Len(out) :
               (\E h \in Tagged("NOT COVERED:") : h < i)
                   => out[i].tag \in {"group", "item", "Total coverage"}
        /\ \A i \in Tagged("group") \cup Tagged("item") :
               \E h \in Tagged("NOT COVERED:") : h < i
        /\ \A name \in DOMAIN uncovered :
               Cardinality({i \in Tagged("item") : out[i].name = name}) = 1
        /\ \A i \in Tagged("item") :
               /\ out[i].name \in DOMAIN uncovered
               /\ out[i].name \notin DOMAIN covered
               /\ out[i].kind = items[out[i].name][3]
               /\ \E g \in Tagged("group") : g < i
               /\ out[GroupOf(i)].file = items[out[i].name][1]
        /\ \A g, k \in Tagged("group") :
               g < k => (out[g].cnt <= out[k].cnt /\ out[g].file # out[k].file)
        /\ \A g \in Tagged("group") :
               /\ out[g].cnt > 0
               /\ out[g].cnt = Cardinality({i \in Tagged("item") : GroupOf(i) = g})
        /\ \A i, j \in Tagged("item") :
               (i < j /\ GroupOf(i) = GroupOf(j)) => StrLess(out[i].name, out[j].name)

\* shapes.scad, with arm and box uncovered, is printed below extra.scad,
\* with cap uncovered
C9_Witness ==
    /\ pc = "done"
    /\ \E g \in Tagged("group") :
           /\ out[g] = [tag |-> "group", file |-> fExtra, cnt |-> 1]
           /\ out[g + 1] = [tag |-> "item", kind |-> "module", name |-> nCap]
           /\ out[g + 2] = [tag |-> "group", file |-> fShapes, cnt |-> 2]
           /\ out[g + 3] = [tag |-> "item", kind |-> "function", name |-> nArm]
           /\ out[g + 4] = [tag |-> "item", kind |-> "module", name |-> nBox]

=============================================================================
